---- MODULE Spec2Model ----
(***************************************************************************)
(* Model of consumers/project_consumer_Sean.py: a single-threaded consumer *)
(* that reads JSON records from a Kafka topic or from a local file, tallies *)
(* the message_length field in a dictionary and redraws a bar chart after   *)
(* every message.                                                           *)
(*                                                                          *)
(* The medium that is read (the topic or the data file) holds `total`       *)
(* records; a record gets its content when the loop takes it.               *)
(* A record of the input is modelled by what json.loads and                 *)
(* dict.get("message_length", 0) make of it:                                *)
(*   k = "bad"     the text is not JSON (json.loads raises)                 *)
(*   k = "nonobj"  JSON, but not an object (message.get raises)             *)
(*   k = "obj"     a JSON object; val is the value of message_length, or    *)
(*                 Missing when the object has no such field                *)
(* A value is [t, v]: t = "int" an integer v, t = "str" a string,           *)
(* t = "list" a JSON array (unhashable in Python).                          *)
(* Calls into matplotlib/numpy are taken to return normally.                *)
(***************************************************************************)
EXTENDS Integers, Sequences, FiniteSets, TLC

\* ---- bounds ------------------------------------------------------------
MaxRecords == 3
MaxVal == 2

\* ---- the input domain --------------------------------------------------
Missing == [t |-> "missing", v |-> 0]
IntVal(n) == [t |-> "int", v |-> n]
StrVal == [t |-> "str", v |-> 0]
ListVal == [t |-> "list", v |-> 0]
Values == {IntVal(n) : n \in 0..MaxVal} \cup {StrVal, ListVal}
Records == {[k |-> "bad", val |-> Missing], [k |-> "nonobj", val |-> Missing]}
           \cup {[k |-> "obj", val |-> x] : x \in Values \cup {Missing}}

VARIABLES
  KAFKA_AVAILABLE,   \* the kafka import succeeded
  brokerUp,          \* the KafkaConsumer constructor would connect
  fileExists,        \* DATA_FILE.exists()
  total,             \* number of records the medium read holds (lines, messages)
  source,            \* the records taken from the medium so far, in order
  pos,               \* position of the iterator: number of records taken
  pc,                \* position in main()
  message_lengths,   \* the module-level list
  length_counts,     \* the module-level dict
  chart,             \* the bars on the axes: sequence of <<key, height>>
  chartUpdates,      \* number of calls of update_chart
  renders,           \* number of calls of update_chart that drew the bars
  calls,             \* number of calls of process_message
  processed,         \* number of calls of process_message that returned
  failedAt,          \* where the last call of process_message raised
  kafkaAttempted,    \* consume_from_kafka was called
  kafkaFailed,       \* its except branch ran
  fileStarted,       \* consume_from_file was called
  log                \* the logger's error and warning lines, in order

vars == <<KAFKA_AVAILABLE, brokerUp, fileExists, total, source, pos, pc,
          message_lengths, length_counts, chart, chartUpdates, renders,
          calls, processed, failedAt, kafkaAttempted, kafkaFailed,
          fileStarted, log>>

env == <<KAFKA_AVAILABLE, brokerUp, fileExists, total>>
data == <<message_lengths, length_counts, chart, chartUpdates, renders,
          calls, processed, failedAt>>

\* ---- dictionaries and lists --------------------------------------------
EmptyDict == [x \in {} |-> 0]

RECURSIVE SumCounts(_)
SumCounts(d) ==
  IF DOMAIN d = {} THEN 0
  ELSE LET k == CHOOSE x \in DOMAIN d : TRUE
       IN d[k] + SumCounts([x \in DOMAIN d \ {k} |-> d[x]])

Occurrences(s, x) == Cardinality({i \in 1..Len(s) : s[i] = x})

\* ---- json.loads, message.get -------------------------------------------
\* json.loads(line.strip()) / the value_deserializer: raises on non-JSON text
ParseOk(rec) == rec.k # "bad"

\* message.get(...) exists only on a dict
IsDict(rec) == rec.k = "obj"

GetDefaultOne(rec) == IF rec.val = Missing THEN IntVal(1) ELSE rec.val

\* message.get("message_length", 0)
GetLength(rec) == IF rec.val = Missing THEN IntVal(0) ELSE rec.val

\* `message_length in length_counts` hashes the value: a list raises
Hashable(x) == x.t # "list"

IncrementDedup(d, k) ==
  [x \in DOMAIN d \cup {k} |-> IF x = k THEN 1 ELSE d[x]]

IncrementDown(d, k) ==
  IF k \in DOMAIN d THEN [d EXCEPT ![k] = @ - 1]
  ELSE [x \in DOMAIN d \cup {k} |-> IF x = k THEN 1 ELSE d[x]]

\* if message_length in length_counts: += 1 else: = 1
Increment(d, k) ==
  IF k \in DOMAIN d THEN [d EXCEPT ![k] = @ + 1]
  ELSE [x \in DOMAIN d \cup {k} |-> IF x = k THEN 1 ELSE d[x]]

\* ---- update_chart ------------------------------------------------------
\* sorted() compares the keys with <, which raises between str and int
Sortable(S) == \A a \in S, b \in S : a.t = b.t

KeyLess(a, b) == a.v < b.v

RECURSIVE SortedDescending(_)
SortedDescending(S) ==
  IF S = {} THEN <<>>
  ELSE LET m == CHOOSE x \in S : \A y \in S \ {x} : KeyLess(y, x)
       IN <<m>> \o SortedDescending(S \ {m})

\* sorted(length_counts.keys())
RECURSIVE SortedKeys(_)
SortedKeys(S) ==
  IF S = {} THEN <<>>
  ELSE LET m == CHOOSE x \in S : \A y \in S \ {x} : KeyLess(x, y)
       IN <<m>> \o SortedKeys(S \ {m})

\* ax.bar(sorted_lengths, counts)
Bars(d) ==
  LET ks == SortedKeys(DOMAIN d)
  IN [i \in 1..Len(ks) |-> <<ks[i], d[ks[i]]>>]

\* update_chart(): ax.clear(); return if no samples; sort; draw
UpdateChart(ml, d) ==
  IF ml = <<>> THEN [ok |-> TRUE, drawn |-> FALSE, chart |-> <<>>]
  ELSE IF ~Sortable(DOMAIN d) THEN [ok |-> FALSE, drawn |-> FALSE, chart |-> <<>>]
  ELSE [ok |-> TRUE, drawn |-> TRUE, chart |-> Bars(d)]

\* ---- process_message ---------------------------------------------------
\* The result of one call on the current list, dict and chart.
ProcessMessage(rec, ml, d, ch) ==
  IF ~IsDict(rec)
  THEN [at |-> "get", ml |-> ml, d |-> d, chart |-> ch, upd |-> 0, drawn |-> 0]
  ELSE LET len == GetLength(rec)
           ml2 == Append(ml, len)
       IN IF ~Hashable(len)
          THEN [at |-> "hash", ml |-> ml2, d |-> d, chart |-> ch,
                upd |-> 0, drawn |-> 0]
          ELSE LET d2 == Increment(d, len)
                   r == UpdateChart(ml2, d2)
               IN [at |-> IF r.ok THEN "none" ELSE "render",
                   ml |-> ml2, d |-> d2, chart |-> r.chart,
                   upd |-> 1, drawn |-> IF r.drawn THEN 1 ELSE 0]

\* ---- main and the two consumers ----------------------------------------
MainBranchInverted(avail) == IF avail THEN "file_open" ELSE "kafka_connect"

\* main(): if KAFKA_AVAILABLE: consume_from_kafka() else: consume_from_file()
MainBranch(avail) == IF avail THEN "kafka_connect" ELSE "file_open"

ExceptInsideLoop(loop) == loop

\* the try/except encloses the whole for loop: an exception leaves the
\* consumer function, and main goes on to plt.ioff(); plt.show()
AfterException(loop) == "display"

FileUsableNoCheck(exists) == TRUE

\* if not DATA_FILE.exists(): log, return
FileUsable(exists) == exists

NextPosSkip(p) == p + 2

\* the iterator hands out the records one after the other
NextPos(p) == p + 1

Init ==
  /\ KAFKA_AVAILABLE \in BOOLEAN
  /\ brokerUp \in BOOLEAN
  /\ fileExists \in BOOLEAN
  /\ total \in 0..MaxRecords
  \* a topic that cannot be reached and a file that does not exist hold nothing
  /\ (KAFKA_AVAILABLE /\ ~brokerUp) => total = 0
  /\ (~KAFKA_AVAILABLE /\ ~fileExists) => total = 0
  /\ source = <<>>
  /\ pos = 0
  /\ pc = "start"
  /\ message_lengths = <<>>
  /\ length_counts = EmptyDict
  /\ chart = <<>>
  /\ chartUpdates = 0
  /\ renders = 0
  /\ calls = 0
  /\ processed = 0
  /\ failedAt = "none"
  /\ kafkaAttempted = FALSE
  /\ kafkaFailed = FALSE
  /\ fileStarted = FALSE
  /\ log = <<>>

\* main(), up to the call of a consumer
MainStart ==
  /\ pc = "start"
  /\ pc' = MainBranch(KAFKA_AVAILABLE)
  /\ log' = IF MainBranch(KAFKA_AVAILABLE) = "file_open"
            THEN Append(log, "warning: kafka not available")
            ELSE log
  /\ UNCHANGED <<env, source, pos, data, kafkaAttempted, kafkaFailed, fileStarted>>

\* consume_from_kafka(), up to the for loop: the constructor connects or raises
KafkaConnect ==
  /\ pc = "kafka_connect"
  /\ kafkaAttempted' = TRUE
  /\ IF brokerUp
     THEN /\ pc' = "kafka_loop"
          /\ UNCHANGED <<kafkaFailed, log>>
     ELSE /\ pc' = AfterException("kafka_connect")
          /\ kafkaFailed' = TRUE
          /\ log' = Append(log, "error: kafka consumer")
  /\ UNCHANGED <<env, source, pos, data, fileStarted>>

\* the effect of process_message on the module-level state
Apply(r) ==
  /\ message_lengths' = r.ml
  /\ length_counts' = r.d
  /\ chart' = r.chart
  /\ chartUpdates' = chartUpdates + r.upd
  /\ renders' = renders + r.drawn
  /\ calls' = calls + 1
  /\ processed' = IF r.at = "none" THEN processed + 1 ELSE processed
  /\ failedAt' = r.at

\* one iteration of `for message in consumer` on the next record of the topic;
\* the loop blocks when the topic has no further record
KafkaNext ==
  /\ pc = "kafka_loop"
  /\ pos < total
  /\ pos' = NextPos(pos)
  /\ \E rec \in Records :
     /\ source' = Append(source, rec)
     /\ IF ~ParseOk(rec)
        THEN /\ pc' = AfterException("kafka_loop")
             /\ kafkaFailed' = TRUE
             /\ log' = Append(log, "error: kafka consumer")
             /\ UNCHANGED data
        ELSE LET r == ProcessMessage(rec, message_lengths, length_counts, chart)
             IN /\ Apply(r)
                /\ IF r.at = "none"
                   THEN /\ pc' = "kafka_loop"
                        /\ UNCHANGED <<kafkaFailed, log>>
                   ELSE /\ pc' = AfterException("kafka_loop")
                        /\ kafkaFailed' = TRUE
                        /\ log' = Append(log, "error: kafka consumer")
  /\ UNCHANGED <<env, kafkaAttempted, fileStarted>>

\* consume_from_file(), up to the for loop
FileOpen ==
  /\ pc = "file_open"
  /\ fileStarted' = TRUE
  /\ IF FileUsable(fileExists)
     THEN /\ pc' = "file_loop"
          /\ UNCHANGED log
     ELSE /\ pc' = "display"
          /\ log' = Append(log, "error: data file not found")
  /\ UNCHANGED <<env, source, pos, data, kafkaAttempted, kafkaFailed>>

\* one iteration of `for line in f`, or the end of the file
FileNext ==
  /\ pc = "file_loop"
  /\ IF pos >= total
     THEN /\ pc' = "display"
          /\ UNCHANGED <<source, pos, data, log>>
     ELSE /\ pos' = NextPos(pos)
          /\ \E rec \in Records :
             /\ source' = Append(source, rec)
             /\ IF ~ParseOk(rec)
                THEN /\ pc' = AfterException("file_loop")
                     /\ log' = Append(log, "error: reading from file")
                     /\ UNCHANGED data
                ELSE LET r == ProcessMessage(rec, message_lengths,
                                             length_counts, chart)
                     IN /\ Apply(r)
                        /\ IF r.at = "none"
                           THEN /\ pc' = "file_loop"
                                /\ UNCHANGED log
                           ELSE /\ pc' = AfterException("file_loop")
                                /\ log' = Append(log, "error: reading from file")
  /\ UNCHANGED <<env, kafkaAttempted, kafkaFailed, fileStarted>>

\* plt.ioff(); plt.show()
Display ==
  /\ pc = "display"
  /\ pc' = "done"
  /\ UNCHANGED <<env, source, pos, data, kafkaAttempted, kafkaFailed, fileStarted, log>>

Next ==
  \/ MainStart
  \/ KafkaConnect
  \/ KafkaNext
  \/ FileOpen
  \/ FileNext
  \/ Display

Spec == Init /\ [][Next]_vars

\* The program is sequential and every step of it returns: a step that can be
\* taken is taken.
FairSpec == Spec /\ WF_vars(Next)

\* ---- vocabulary of the properties --------------------------------------
Ended == pc \in {"display", "done"}
InLoop == pc \in {"kafka_loop", "file_loop"}
FileMode == ~KAFKA_AVAILABLE /\ fileExists
ErrorLogged ==
  \E i \in 1..Len(log) :
    log[i] \in {"error: kafka consumer", "error: data file not found",
                "error: reading from file"}

\* a message as the data model describes it: a JSON object whose
\* message_length is an integer or absent
ValidMessage(rec) == rec.k = "obj" /\ rec.val.t \in {"int", "missing"}
\* said of the records taken so far; when it holds at the end of the file it
\* holds of every line of the file
AllValid == \A i \in 1..Len(source) : ValidMessage(source[i])
AllObjects == \A i \in 1..Len(source) : source[i].k = "obj"

\* the length the n-th record carries, 0 when it has none
Carried(rec) ==
  IF rec.val.t = "missing" THEN [t |-> "int", v |-> 0] ELSE rec.val
ExpectedLengths(n) == [i \in 1..n |-> Carried(source[i])]
Tally(s) == [x \in {s[i] : i \in 1..Len(s)} |-> Occurrences(s, x)]
CountOf(d, x) == IF x \in DOMAIN d THEN d[x] ELSE 0
IsPrefix(s, t) == Len(s) <= Len(t) /\ \A i \in 1..Len(s) : s[i] = t[i]

\* one bar per key, ascending by key, as high as the key's count
WellDrawn(ch, d) ==
  /\ Len(ch) = Cardinality(DOMAIN d)
  /\ \A i \in 1..Len(ch) : ch[i][1] \in DOMAIN d /\ ch[i][2] = d[ch[i][1]]
  /\ \A i \in 1..Len(ch), j \in 1..Len(ch) : i < j => ch[i][1].v < ch[j][1].v

\* ---- C1 ----------------------------------------------------------------
\* C1 (as stated): in every state the sum of the counts of length_counts
\* equals the number of calls of process_message that completed successfully.
C1_SumEqualsProcessed == SumCounts(length_counts) = processed

\* C1 (amended): the sum of the counts equals the number of messages
\* process_message processed successfully, plus one when the last call raised
\* inside update_chart, after its histogram update.
C1_SumEqualsCounted ==
  SumCounts(length_counts) = processed + (IF failedAt = "render" THEN 1 ELSE 0)

C1_Witness ==
  /\ failedAt = "render"
  /\ processed >= 1
  /\ SumCounts(length_counts) = processed + 1

\* ---- C2 ----------------------------------------------------------------
\* C2 (as stated): when the library is unavailable or the broker attempt
\* failed, file consumption has been started by the time the consumer ended.
C2_FallbackToFile ==
  (Ended /\ (~KAFKA_AVAILABLE \/ kafkaFailed)) => fileStarted

\* C2 (amended): broker consumption is attempted exactly when the library is
\* usable, file consumption is started exactly when it is not; a failed broker
\* attempt is logged and ends the consumer without any file consumption.
C2_SourceSelection ==
  /\ kafkaAttempted => KAFKA_AVAILABLE
  /\ fileStarted => ~KAFKA_AVAILABLE
  /\ Ended => (kafkaAttempted <=> KAFKA_AVAILABLE)
  /\ Ended => (fileStarted <=> ~KAFKA_AVAILABLE)
  /\ kafkaFailed => (Ended /\ ~fileStarted /\ ErrorLogged)

C2_Witness == pc = "done" /\ kafkaFailed /\ ~brokerUp /\ ~fileStarted

\* ---- C3 ----------------------------------------------------------------
\* C3: a record that is not JSON ends the loop, in file mode and in broker
\* mode: it is the last record taken, the step that meets it leaves the list
\* and the histogram as they were, logs the error and moves main to its final
\* display step, and once the loop has ended nothing is read or counted.
C3_BadRecordEndsLoop ==
  /\ [](\A i \in 1..Len(source) :
          (source[i].k = "bad" /\ i <= pos) =>
             (pos = i /\ Ended /\ ErrorLogged))
  /\ [][(InLoop /\ Len(source') = Len(source) + 1
            /\ source'[Len(source')].k = "bad") =>
          /\ pc' = "display"
          /\ length_counts' = length_counts
          /\ message_lengths' = message_lengths
          /\ calls' = calls
          /\ Len(log') = Len(log) + 1]_vars
  /\ [][Ended =>
          /\ Ended'
          /\ pos' = pos
          /\ calls' = calls
          /\ length_counts' = length_counts
          /\ message_lengths' = message_lengths]_vars

C3_Witness ==
  /\ pc = "done"
  /\ pos >= 2
  /\ pos < total
  /\ pos = Len(source)
  /\ source[pos].k = "bad"
  /\ processed = pos - 1
  /\ SumCounts(length_counts) = pos - 1

\* ---- C4 ----------------------------------------------------------------
\* C4: as long as every record taken so far is a valid message, the histogram
\* maps each length to the number of those records that carry it and has no
\* other key; equal messages are counted each time.
C4_HistogramIsTally ==
  (\A i \in 1..pos : i <= Len(source) /\ ValidMessage(source[i])) =>
     length_counts = Tally(ExpectedLengths(pos))

C4_Witness ==
  /\ pos = 3
  /\ ExpectedLengths(3) = <<IntVal(1), IntVal(2), IntVal(2)>>
  /\ DOMAIN length_counts = {IntVal(1), IntVal(2)}
  /\ length_counts[IntVal(1)] = 1
  /\ length_counts[IntVal(2)] = 2

\* ---- C5 ----------------------------------------------------------------
\* C5: the step that processes an object without a message_length field adds
\* one to the bucket of 0 (creating it with 1) and changes no other bucket.
C5_MissingFieldCountsZero ==
  [][(InLoop /\ Len(source') = Len(source) + 1
        /\ source'[Len(source')].k = "obj"
        /\ source'[Len(source')].val = Missing) =>
       /\ DOMAIN length_counts' = DOMAIN length_counts \cup {IntVal(0)}
       /\ length_counts'[IntVal(0)] = CountOf(length_counts, IntVal(0)) + 1
       /\ \A x \in DOMAIN length_counts \ {IntVal(0)} :
             length_counts'[x] = length_counts[x]]_vars

C5_Witness ==
  /\ pos >= 2
  /\ pos = Len(source)
  /\ source[pos].k = "obj"
  /\ source[pos].val = Missing
  /\ CountOf(length_counts, IntVal(0)) >= 1
  /\ Cardinality(DOMAIN length_counts) >= 2

\* ---- C6 ----------------------------------------------------------------
\* C6: without the library and without the data file, process_message and
\* update_chart are never called, the list, the histogram and the chart stay
\* empty, and the error is in the log once the consumer has ended.
C6_NoSourceNoUpdates ==
  (~KAFKA_AVAILABLE /\ ~fileExists) =>
     /\ calls = 0
     /\ chartUpdates = 0
     /\ renders = 0
     /\ length_counts = EmptyDict
     /\ message_lengths = <<>>
     /\ chart = <<>>
     /\ Ended => (fileStarted /\ ErrorLogged)

C6_Witness ==
  /\ pc = "done"
  /\ ~KAFKA_AVAILABLE
  /\ ~fileExists
  /\ fileStarted
  /\ log = <<"warning: kafka not available", "error: data file not found">>

\* ---- C7 ----------------------------------------------------------------
\* C7: a step in which process_message completes calls update_chart once and
\* draws once, in the same step that takes the record (so before the next
\* one is read), and the chart it leaves has one bar per key of the updated
\* histogram, ascending by key, each as high as the key's count, the count of
\* the message just processed included.
C7_RedrawAfterEachMessage ==
  /\ [][processed' = processed + 1 =>
          /\ pos' = pos + 1
          /\ Len(source') = Len(source) + 1
          /\ chartUpdates' = chartUpdates + 1
          /\ renders' = renders + 1
          /\ WellDrawn(chart', length_counts')
          /\ \E i \in 1..Len(chart') :
                /\ chart'[i][1] = Carried(source'[Len(source')])
                /\ chart'[i][2] =
                      CountOf(length_counts, Carried(source'[Len(source')])) + 1]_vars
  /\ [](renders = processed /\ chartUpdates <= processed + 1)

C7_Witness ==
  /\ processed = 3
  /\ renders = 3
  /\ Len(chart) = 2
  /\ chart[1][1].v < chart[2][1].v
  /\ chart[1][2] + chart[2][2] = 3

\* ---- C8 ----------------------------------------------------------------
\* C8: every stored count is a positive integer, and no step removes a key,
\* lowers a count or does anything to message_lengths but append to it.
C8_Monotone ==
  /\ [](\A x \in DOMAIN length_counts :
          length_counts[x] \in Nat /\ length_counts[x] > 0)
  /\ [][/\ \A x \in DOMAIN length_counts :
              x \in DOMAIN length_counts' /\ length_counts'[x] >= length_counts[x]
        /\ IsPrefix(message_lengths, message_lengths')]_vars

C8_Witness ==
  /\ Len(message_lengths) = 3
  /\ Cardinality(DOMAIN length_counts) = 2
  /\ \E x \in DOMAIN length_counts : length_counts[x] = 2

\* ---- C9 ----------------------------------------------------------------
\* C9 (as stated): in file mode, when every line of the file is a JSON
\* object, every line has been processed when main is done.  (Stated of the
\* runs that took every line of the file, so that every line is known.)
C9_AllObjectsProcessed ==
  (pc = "done" /\ FileMode /\ AllObjects /\ pos = total) => processed = total

\* C9 (amended): in file mode main reaches its final display step; as long as
\* every line taken is a JSON object whose message_length is an integer or
\* absent, the lines are processed once each in file order and the loop ends
\* only at the end of the file, without an error; once the loop has ended the
\* histogram is fixed.
C9_ValidFileRunsToEnd ==
  /\ FileMode => <>(pc = "display")
  /\ []((FileMode /\ AllValid) =>
          /\ calls = pos
          /\ processed = pos
          /\ pos = Len(source)
          /\ pos <= total
          /\ message_lengths = ExpectedLengths(pos)
          /\ Ended => (pos = total /\ ~ErrorLogged))
  /\ [][Ended => (Ended' /\ length_counts' = length_counts)]_vars

C9_Witness ==
  /\ pc = "done"
  /\ FileMode
  /\ AllValid
  /\ total >= 2
  /\ processed = total
  /\ Cardinality(DOMAIN length_counts) >= 2

\* ---- C10 ---------------------------------------------------------------
\* C10: every value occurs in message_lengths as often as length_counts
\* counts it (0 when it is no key), so the list is as long as the counts sum.
C10_ListMatchesHistogram ==
  /\ \A x \in Values : Occurrences(message_lengths, x) = CountOf(length_counts, x)
  /\ Len(message_lengths) = SumCounts(length_counts)

====
